---- MODULE Spec2Model ----
(***************************************************************************)
(* Model of usbcreator/frontends/kde/frontend.py (KdeFrontend) driven by   *)
(* the backend installer.  The front-end is translated from the source;    *)
(* the backend (usbcreator.backends, not part of the sources at hand) is   *)
(* modelled from its contract in the specification.                        *)
(*                                                                         *)
(* Execution model.  The consumer is the Qt event loop.  A modal dialog    *)
(* (QMessageBox.exec_/warning/critical/information) runs a nested event    *)
(* loop: the handler that opened it is suspended (a frame on `dialogs`)    *)
(* and timers keep firing until the user answers.  A timer whose slot is   *)
(* still running is not fired again, so the queue processor does not       *)
(* re-enter itself while a dialog opened by one of its handlers is open.   *)
(* sys.exit(n) ends the process with status n.                             *)
(***************************************************************************)
EXTENDS Integers, Sequences, FiniteSets, TLC

\* ------------------------------------------------------------------ bounds
\* install_progress events published while a job is writing, and device
\* events (source/target added, removed, changed) ever delivered
MaxProgress == 1
MaxDeviceEvents == 2
\* queue length from which on the dispatcher is to signal an overflow (the
\* front-end has no such number: Queue() is created without a maxsize)
SanityThreshold == 2

\* ids the backend's mappings range over
SourceIds == {1, 2}
TargetIds == {1, 2}

\* '' as returned by get_source/get_target when nothing is selected
EmptyId == 0

\* misc.CAN_USE, misc.CANNOT_USE; UNKNOWN is the status of a target the
\* capacity evaluator has not looked at (here: one that is not attached)
CAN_USE == "CAN_USE"
CANNOT_USE == "CANNOT_USE"
UNKNOWN == "UNKNOWN"
Statuses == {CAN_USE, CANNOT_USE}

SOURCE_IMG == "IMG"
SOURCE_ISO == "ISO"

\* backend.sources[id]['type']: source 1 is a CD image, the others raw images
SourceType(s) == IF s = 1 THEN SOURCE_ISO ELSE SOURCE_IMG

\* values install_progress publishes (percent)
ProgressValues == {0, 50, 100}

\* Python's None, as a callback's return value
None == "None"
\* None as the backend's current source (set_current_source(None))
NoSource == -1
NoItem == [id |-> EmptyId, n |-> 0]

TooSmall == "The device is not large enough to hold this image."
Finishing == "Finishing..."
StartingUp == "Starting up"

VARIABLES
    \* ---- front-end (src/usbcreator/frontends/kde/frontend.py)
    queue,          \* module-level Queue() of closures put by thread_wrap
    srcItems,       \* items of ui_source_list: records [id, n], the n-th
                    \* item created for that id
    srcCur,         \* ui_source_list.currentItem()
    dstItems,       \* items of ui_dest_list
    dstCur,         \* ui_dest_list.currentItem()
    startEnabled,   \* ui_start_button.isEnabled()
    destStatus,     \* ui_dest_status text
    mainVisible,    \* __mainWindow shown
    pbHidden,       \* progress_bar.isHidden()
    pbValue,        \* progress_bar.value()
    pbLabel,        \* progress_bar.labelText()
    dialogs,        \* stack of open modal dialogs (suspended handlers)
    exitStatus,     \* "running", or the status passed to sys.exit ("0", "1")
    srcShown,       \* ui_source_list and ui_add_source are shown
    recently_added, \* __recently_added_image
    ctor,           \* calls __init__ has still to make (lines 90-110)
    updateLoopActive,   \* update_loop.isActive()
    queueProcActive,    \* queue_processor.isActive()
    \* ---- backend (contract)
    sources,        \* keys of backend.sources
    targets,        \* keys of backend.targets
    tstatus,        \* backend.targets[t]['status']
    currentSource,  \* backend.get_current_source()
    phase,          \* install pipeline state
    lastProgress,   \* last percent published for the job
    \* ---- history (observations the properties are stated over)
    npub,           \* number of events put on the queue
    ndev,           \* number of device events delivered
    handled,        \* queued events whose handler has run, in order
    shown,          \* values applied to the progress bar, in order
    installCalls,   \* number of calls of backend.install
    installArgs,    \* arguments of the last backend.install
    installResult,  \* "none", "accepted" or "rejected"
    confirmAnswer,  \* last answer to the confirmation box
    cancelledAt,    \* Len(handled) when cancel_install hit an active job,
                    \* -1 before
    retryReturned,  \* what retry_cb returned to the backend
    retryAnswer,    \* what the user answered in the retry dialog
    valueAtSuccess  \* progress_bar.value() when success was handled

vars == <<queue, srcItems, srcCur, dstItems, dstCur, startEnabled,
          destStatus, mainVisible, pbHidden, pbValue, pbLabel, dialogs,
          exitStatus, sources, targets, tstatus, currentSource, phase,
          lastProgress, npub, ndev, handled, shown, installCalls,
          installArgs, installResult, confirmAnswer, cancelledAt,
          retryReturned, retryAnswer, valueAtSuccess, srcShown,
          recently_added, ctor, updateLoopActive, queueProcActive>>

listVars == <<srcItems, srcCur, dstItems, dstCur, startEnabled, destStatus,
              currentSource, recently_added>>
ctorVars == <<srcShown, ctor>>
timerVars == <<updateLoopActive, queueProcActive>>
pbVars == <<pbHidden, pbValue, pbLabel>>
devVars == <<sources, targets, tstatus>>
jobVars == <<phase, lastProgress>>
installHist == <<installCalls, installArgs, installResult, confirmAnswer>>
retryHist == <<retryReturned, retryAnswer>>

\* ------------------------------------------------------- Qt list widgets
\* sort order of a QTreeWidget with sorting enabled (column 0, ascending;
\* items with equal text keep creation order)
Before(i, j) == i.id < j.id \/ (i.id = j.id /\ i.n < j.n)

\* QTreeWidget.topLevelItem(0), NoItem when the list is empty
topLevelItem0(items) ==
    IF items = {} THEN NoItem
    ELSE CHOOSE i \in items : \A j \in items : i = j \/ Before(i, j)

\* first item, in list order, whose Qt.UserRole data equals id (the loops of
\* remove_target / remove_source / update_target), NoItem when none
findItem(items, id) == topLevelItem0({i \in items : i.id = id})

\* QTreeWidget.takeTopLevelItem(i): the item leaves the list
takeTopLevelItem(items, item) == items \ {item}

\* QTreeWidget.removeItemWidget(item, 0): removes the widget set on the cell
\* by setItemWidget; the item itself stays in the list
removeItemWidget(items, item) == items

\* the item Qt makes current when the current item is taken out of the list:
\* the next one in list order, else the previous one, else none
neighbour(items, item) ==
    LET after == {i \in items : Before(item, i)}
        before == {i \in items : Before(i, item)}
    IN  IF after # {} THEN topLevelItem0(after)
        ELSE IF before # {}
             THEN CHOOSE i \in before : \A j \in before : i = j \/ Before(j, i)
             ELSE NoItem

\* ------------------------------------------------------------ front-end
\* The widgets and the backend's current source as one record, so that a
\* handler and the slots it triggers compose.
UI == [srcItems |-> srcItems, srcCur |-> srcCur, dstItems |-> dstItems,
       dstCur |-> dstCur, start |-> startEnabled, msg |-> destStatus,
       cs |-> currentSource, recent |-> recently_added]

SetUI(u) ==
    /\ srcItems' = u.srcItems
    /\ srcCur' = u.srcCur
    /\ dstItems' = u.dstItems
    /\ dstCur' = u.dstCur
    /\ startEnabled' = u.start
    /\ destStatus' = u.msg
    /\ currentSource' = u.cs
    /\ recently_added' = u.recent

update_target_strict(u, ts, udi) ==
    IF u.cs = NoSource THEN u
    ELSE [u EXCEPT
            !.start = (ts[udi] = CAN_USE),
            !.msg = IF ts[udi] = CANNOT_USE THEN TooSmall ELSE ""]

\* KdeFrontend.update_target; ts is backend.targets[.]['status']
update_target(u, ts, udi) ==
    IF u.cs = NoSource THEN u
    ELSE [u EXCEPT
            !.start = (ts[udi] = CAN_USE
                       \/ (u.start /\ SourceType(u.cs) = SOURCE_IMG)),
            !.msg = IF ts[udi] = CANNOT_USE THEN TooSmall ELSE ""]

\* KdeFrontend.dest_selection_changed
dest_selection_changed(u, ts, current_item) ==
    IF current_item = NoItem THEN u
    ELSE update_target(u, ts, current_item.id)

source_selection_changed_keep(u, ts, current_item) ==
    dest_selection_changed(u, ts, u.dstCur)

\* KdeFrontend.source_selection_changed (backend.set_current_source included)
source_selection_changed(u, ts, current_item) ==
    LET udi == IF current_item # NoItem THEN current_item.id ELSE NoSource
        u1 == [u EXCEPT !.cs = udi]
    IN  dest_selection_changed(u1, ts, u1.dstCur)

\* ui_dest_list.setCurrentItem: currentItemChanged fires when it changes
setCurrentDest(u, ts, item) ==
    IF item = u.dstCur THEN u
    ELSE dest_selection_changed([u EXCEPT !.dstCur = item], ts, item)

\* ui_source_list.setCurrentItem
setCurrentSource(u, ts, item) ==
    IF item = u.srcCur THEN u
    ELSE source_selection_changed([u EXCEPT !.srcCur = item], ts, item)

\* QTreeWidgetItem(list): a new item for id, appended to the list
newItem(items, id) ==
    [id |-> id, n |-> Cardinality({i \in items : i.id = id}) + 1]

\* KdeFrontend.add_target
add_target(u, ts, target) ==
    LET new_item == newItem(u.dstItems, target)
        u1 == [u EXCEPT !.dstItems = @ \cup {new_item}]
    IN  IF u1.dstCur = NoItem
        THEN setCurrentDest(u1, ts, topLevelItem0(u1.dstItems))
        ELSE u1

\* KdeFrontend.remove_target
remove_target(u, ts, target) ==
    LET item == findItem(u.dstItems, target)
        rest == takeTopLevelItem(u.dstItems, item)
        u1 == IF item = NoItem THEN u
              ELSE IF item = u.dstCur
                   THEN setCurrentDest([u EXCEPT !.dstItems = rest], ts,
                                       neighbour(rest, item))
                   ELSE [u EXCEPT !.dstItems = rest]
    IN  IF u1.dstCur = NoItem /\ topLevelItem0(u1.dstItems) # NoItem
        THEN setCurrentDest(u1, ts, topLevelItem0(u1.dstItems))
        ELSE u1

\* backend.sources[source]['device']: the path of an image, which is also
\* the text of its item (column 0)
device(source) == source

add_source_select(u, ts, source) ==
    LET new_item == newItem(u.srcItems, source)
        u1 == [u EXCEPT !.srcItems = @ \cup {new_item}]
    IN  [setCurrentSource(u1, ts, new_item) EXCEPT
            !.recent = IF device(source) = @ THEN NoSource ELSE @]

\* KdeFrontend.add_source
add_source(u, ts, source) ==
    LET new_item == newItem(u.srcItems, source)
        u1 == [u EXCEPT !.srcItems = @ \cup {new_item}]
        u2 == IF u1.srcCur = NoItem
              THEN setCurrentSource(u1, ts, topLevelItem0(u1.srcItems))
              ELSE u1
    IN  IF u2.recent # NoSource /\ device(source) = u2.recent
        THEN [setCurrentSource(u2, ts, new_item) EXCEPT !.recent = NoSource]
        ELSE u2

\* KdeFrontend.remove_source
remove_source(u, ts, source) ==
    LET item == findItem(u.srcItems, source)
        u1 == IF item = NoItem THEN u
              ELSE [u EXCEPT !.srcItems = removeItemWidget(@, item)]
    IN  IF u1.srcCur = NoItem /\ topLevelItem0(u1.srcItems) # NoItem
        THEN setCurrentSource(u1, ts, topLevelItem0(u1.srcItems))
        ELSE u1

\* KdeFrontend.get_source / get_target
get_source == IF srcCur # NoItem THEN srcCur.id ELSE EmptyId
get_target == IF dstCur # NoItem THEN dstCur.id ELSE EmptyId

\* ------------------------------------------------ queue and thread_wrap
\* a queued closure: the wrapped handler, its argument, and (history) the
\* serial number of the publication
Event(kind, arg, n) == [kind |-> kind, arg |-> arg, n |-> n]

wrap_lifo(q, ev) == <<ev>> \o q

\* thread_wrap's wrap(*args): queue.put(lambda: func(*args))
wrap(q, ev) == Append(q, ev)

\* what wrap(*args) returns to its caller: it has no return statement
wrapReturn == None

\* a backend callback slot bound to a @thread_wrap method is called
Publish(kind, arg) ==
    /\ queue' = wrap(queue, Event(kind, arg, npub + 1))
    /\ npub' = npub + 1

\* the event loop runs: __init__ has returned and sys.exit was not called
Running == exitStatus = "running" /\ ctor = <<>>

\* ----------------------------------------------------------------- timers
\* KdeFrontend.add_timeout: the timer is started
add_timeout == TRUE

\* KdeFrontend.__timeout_callback: a slot that returns a false value stops
\* its timer
timeout_callback(active, result) == IF ~result THEN FALSE ELSE active

test_func_return_none == FALSE

\* test_func ends with `return True`
test_func_return == TRUE

\* backend.update_free returns a true value: the poll goes on
update_free_return == TRUE

\* KdeFrontend.delete_timeout: `if timer.isActive(): return False`, so only
\* a timer that is not active gets to timer.stop()
delete_timeout(active) == IF active THEN active ELSE FALSE

\* ------------------------------------------------------- modal dialogs
Frame(kind, by, source, target) ==
    [kind |-> kind, by |-> by, source |-> source, target |-> target]

Top == dialogs[Len(dialogs)]
Pop == SubSeq(dialogs, 1, Len(dialogs) - 1)
TopIs(kind) == dialogs # <<>> /\ Top.kind = kind

\* the queue processor's slot is on the stack (suspended in a dialog)
InTimerSlot == \E i \in 1..Len(dialogs) : dialogs[i].by = "timer"

\* the user can reach the widgets of a window: no modal dialog is open
Interactive == Running /\ dialogs = <<>>

\* ------------------------------------------------------------------ Init
\* __init__ from line 90 on is a sequence of calls into the backend:
\* add_image for the image passed and for every *.iso of the downloads
\* directory, then (lines 100-110) the two timers and detect_devices
Call(op, path, found) == [op |-> op, path |-> path, found |-> found]

\* QDir.entryList: the names in ascending order
RECURSIVE entryList(_)
entryList(S) ==
    IF S = {} THEN <<>>
    ELSE LET m == CHOOSE x \in S : \A y \in S : x <= y
         IN  <<m>> \o entryList(S \ {m})

RECURSIVE addImageCalls(_)
addImageCalls(paths) ==
    IF paths = <<>> THEN <<>>
    ELSE <<Call("add_image", Head(paths), <<>>)>> \o addImageCalls(Tail(paths))

\* what the initial enumeration of detect_devices can report: up to two
\* targets, each with its status, in the order they are reported
Detection == [t : TargetIds, st : Statuses]
Detections ==
    {<<>>}
    \cup {<<d>> : d \in Detection}
    \cup {e \in {<<d1, d2>> : d1 \in Detection, d2 \in Detection} :
              e[1].t # e[2].t}

\* the state of KdeFrontend.__init__ at line 90 (private variables and the
\* UI set up, the backend connected); img is the image passed (NoSource for
\* None, EmptyId for ''), downloads the *.iso files of the downloads
\* directory, found what detect_devices will report
InitWith(img, downloads, found) ==
    /\ queue = <<>>
    /\ srcItems = {} /\ srcCur = NoItem
    /\ dstItems = {} /\ dstCur = NoItem
    /\ startEnabled = FALSE
    /\ destStatus = ""
    /\ mainVisible = TRUE
    /\ pbHidden = TRUE /\ pbValue = -1 /\ pbLabel = ""
    /\ dialogs = <<>>
    /\ exitStatus = "running"
    /\ srcShown = ~(img # EmptyId)
    /\ recently_added = NoSource
    /\ ctor = (IF img # NoSource THEN <<Call("add_image", img, <<>>)>>
                                  ELSE <<>>)
               \o addImageCalls(entryList(downloads))
               \o <<Call("start", EmptyId, found)>>
    /\ updateLoopActive = FALSE
    /\ queueProcActive = FALSE
    /\ sources = {} /\ targets = {}
    /\ tstatus = [t \in TargetIds |-> UNKNOWN]
    /\ currentSource = NoSource
    /\ phase = "IDLE" /\ lastProgress = 0
    /\ npub = 0 /\ ndev = 0
    /\ handled = <<>> /\ shown = <<>>
    /\ installCalls = 0
    /\ installArgs = [source |-> EmptyId, target |-> EmptyId]
    /\ installResult = "none"
    /\ confirmAnswer = "none"
    /\ cancelledAt = -1
    /\ retryReturned = "unset" /\ retryAnswer = "unset"
    /\ valueAtSuccess = -1

\* started without an image (None), with '' or with the path of an
\* image, an empty downloads directory, and no device attached yet
Init == \E img \in {NoSource, EmptyId} \cup SourceIds : InitWith(img, {}, <<>>)

\* any image, any downloads directory, any initial enumeration
InitStartup ==
    \E img \in {NoSource, EmptyId} \cup SourceIds, downloads \in SUBSET SourceIds,
       found \in Detections :
        InitWith(img, downloads, found)

\* backend.add_image(path): the source registry validates the path (ok),
\* reports a path that is missing or unreadable as a failure event, leaves
\* a path it already holds alone, and otherwise inserts the source and
\* calls source_added_cb; u is the front-end's state at the call
add_image(u, path, ok) ==
    IF path = EmptyId \/ ~ok
    THEN /\ Publish("failure", 0)
         /\ sources' = sources
         /\ SetUI(u)
    ELSE IF path \in sources
         THEN /\ UNCHANGED <<queue, npub, sources>>
              /\ SetUI(u)
         ELSE /\ UNCHANGED <<queue, npub>>
              /\ sources' = sources \cup {path}
              /\ SetUI(add_source(u, tstatus, path))

\* __init__, lines 90-98: the next add_image call
CtorAddImage ==
    /\ exitStatus = "running"
    /\ ctor # <<>> /\ Head(ctor).op = "add_image"
    /\ ctor' = Tail(ctor)
    /\ add_image(UI, Head(ctor).path, TRUE)
    /\ UNCHANGED <<mainVisible, pbVars, dialogs, exitStatus, targets, tstatus,
                   jobVars, ndev, handled, shown, installHist, cancelledAt,
                   retryHist, valueAtSuccess, srcShown, timerVars>>

\* detect_devices: target_added_cb for every target of the enumeration
RECURSIVE detect_devices(_, _, _)
detect_devices(u, ts, found) ==
    IF found = <<>> THEN u
    ELSE detect_devices(add_target(u, ts, Head(found).t), ts, Tail(found))

\* __init__, lines 100-110: the queue processor, detect_devices, the
\* update loop; the event loop runs from here on
CtorStart ==
    /\ exitStatus = "running"
    /\ ctor # <<>> /\ Head(ctor).op = "start"
    /\ ctor' = Tail(ctor)
    /\ queueProcActive' = add_timeout
    /\ updateLoopActive' = add_timeout
    /\ LET found == Head(ctor).found
       IN  /\ targets' = {found[i].t : i \in 1..Len(found)}
           /\ tstatus' = [t \in TargetIds |->
                            IF \E i \in 1..Len(found) : found[i].t = t
                            THEN (CHOOSE r \in {found[i] : i \in 1..Len(found)} :
                                      r.t = t).st
                            ELSE UNKNOWN]
           /\ SetUI(detect_devices(UI, tstatus', found))
    /\ UNCHANGED <<queue, mainVisible, pbVars, dialogs, exitStatus, sources,
                   jobVars, npub, ndev, handled, shown, installHist,
                   cancelledAt, retryHist, valueAtSuccess, srcShown>>

\* ------------------------------------------- backend: device monitor and
\* source registry.  Their callbacks (source_added_cb, ...) are bound to
\* plain methods of the front-end, so the handler runs in the publishing
\* step itself.
DeviceEvent ==
    /\ Running
    /\ ndev < MaxDeviceEvents
    /\ ndev' = ndev + 1
    /\ UNCHANGED <<queue, mainVisible, pbVars, dialogs, exitStatus, jobVars,
                   npub, handled, shown, installHist, cancelledAt, retryHist,
                   valueAtSuccess>>
    /\ UNCHANGED ctorVars

SourceAdded(s) ==
    /\ s \notin sources
    /\ DeviceEvent
    /\ sources' = sources \cup {s}
    /\ SetUI(add_source(UI, tstatus, s))
    /\ UNCHANGED <<targets, tstatus>>
    /\ UNCHANGED timerVars

SourceRemoved(s) ==
    /\ s \in sources
    /\ DeviceEvent
    /\ sources' = sources \ {s}
    /\ SetUI(remove_source(UI, tstatus, s))
    /\ UNCHANGED <<targets, tstatus>>
    /\ UNCHANGED timerVars

TargetAdded(t, st) ==
    /\ t \notin targets
    /\ DeviceEvent
    /\ targets' = targets \cup {t}
    /\ tstatus' = [tstatus EXCEPT ![t] = st]
    /\ SetUI(add_target(UI, tstatus', t))
    /\ UNCHANGED sources
    /\ UNCHANGED timerVars

TargetRemoved(t) ==
    /\ t \in targets
    /\ DeviceEvent
    /\ targets' = targets \ {t}
    /\ tstatus' = [tstatus EXCEPT ![t] = UNKNOWN]
    /\ SetUI(remove_target(UI, tstatus', t))
    /\ UNCHANGED sources
    /\ UNCHANGED timerVars

\* the capacity evaluator or the free-space poll changed a target's status
TargetChanged(t, st) ==
    /\ t \in targets
    /\ st # tstatus[t]
    /\ DeviceEvent
    /\ tstatus' = [tstatus EXCEPT ![t] = st]
    /\ SetUI(update_target(UI, tstatus', t))
    /\ UNCHANGED <<sources, targets>>
    /\ UNCHANGED timerVars

\* --------------------------------------------- user: selecting list items
SelectSource(item) ==
    /\ Interactive /\ mainVisible /\ srcShown
    /\ item \in srcItems /\ item # srcCur
    /\ SetUI(setCurrentSource(UI, tstatus, item))
    /\ UNCHANGED <<queue, mainVisible, pbVars, dialogs, exitStatus,
                   devVars, jobVars, npub, ndev, handled, shown,
                   installHist, cancelledAt, retryHist, valueAtSuccess>>
    /\ UNCHANGED <<ctorVars, timerVars>>

SelectTarget(item) ==
    /\ Interactive /\ mainVisible
    /\ item \in dstItems /\ item # dstCur
    /\ SetUI(setCurrentDest(UI, tstatus, item))
    /\ UNCHANGED <<queue, mainVisible, pbVars, dialogs, exitStatus,
                   devVars, jobVars, npub, ndev, handled, shown,
                   installHist, cancelledAt, retryHist, valueAtSuccess>>
    /\ UNCHANGED <<ctorVars, timerVars>>

\* the 2000 ms update_loop tick: backend.update_free() polls the targets
\* and reports target t as changed (target_changed_cb is update_target)
UpdateFreeTick(t, st) ==
    /\ Running
    /\ updateLoopActive
    /\ t \in targets
    /\ st # tstatus[t]
    /\ tstatus' = [tstatus EXCEPT ![t] = st]
    /\ SetUI(update_target(UI, tstatus', t))
    /\ updateLoopActive' = timeout_callback(updateLoopActive, update_free_return)
    /\ UNCHANGED <<queue, mainVisible, pbVars, dialogs, exitStatus, sources,
                   targets, jobVars, npub, ndev, handled, shown, installHist,
                   cancelledAt, retryHist, valueAtSuccess, ctorVars,
                   queueProcActive>>

\* ------------------------------------------------- user: adding an image
\* KdeFrontend.add_file_source_dialog up to QFileDialog.getOpenFileName
AddSourceClicked ==
    /\ Interactive /\ mainVisible /\ srcShown
    /\ recently_added' = NoSource
    /\ dialogs' = Append(dialogs, Frame("file", "user", EmptyId, EmptyId))
    /\ UNCHANGED <<queue, srcItems, srcCur, dstItems, dstCur, startEnabled,
                   destStatus, currentSource, mainVisible, pbVars, exitStatus,
                   devVars, jobVars, npub, ndev, handled, shown, installHist,
                   cancelledAt, retryHist, valueAtSuccess, ctorVars,
                   timerVars>>

findText_none(items, filename) == NoItem

\* the loop `if item.text(0) == filename` of add_file_source_dialog: the
\* first item of the list showing that path, NoItem when there is none
findText(items, filename) ==
    topLevelItem0({i \in items : device(i.id) = filename})

\* KdeFrontend.add_file_source_dialog from the file dialog's answer on;
\* filename is EmptyId when the dialog was cancelled
ChooseFile(filename, ok) ==
    /\ Running /\ TopIs("file")
    /\ dialogs' = Pop
    /\ IF filename = EmptyId
       THEN UNCHANGED <<listVars, queue, npub, sources, ndev>>
       ELSE LET item == findText(srcItems, filename)
            IN  IF item # NoItem
                THEN /\ SetUI(setCurrentSource(UI, tstatus, item))
                     /\ UNCHANGED <<queue, npub, sources, ndev>>
                ELSE /\ ndev < MaxDeviceEvents
                     /\ ndev' = ndev + 1
                     /\ add_image([UI EXCEPT !.recent = filename],
                                  filename, ok)
    /\ UNCHANGED <<mainVisible, pbVars, exitStatus, targets, tstatus, jobVars,
                   handled, shown, installHist, cancelledAt, retryHist,
                   valueAtSuccess, ctorVars, timerVars>>

\* --------------------------------------------- backend: install pipeline
JobActive == phase \in {"WRITING", "FINALIZING"}

\* install_progress events published so far
PublishedProgress ==
    Cardinality({i \in 1..Len(handled) : handled[i].kind = "progress"})
    + Cardinality({i \in 1..Len(queue) : queue[i].kind = "progress"})

\* WRITING: a chunk was written, install_progress_cb(percent)
BackendProgress(p) ==
    /\ Running
    /\ phase = "WRITING"
    /\ PublishedProgress < MaxProgress
    /\ p >= lastProgress
    /\ Publish("progress", p)
    /\ lastProgress' = p
    /\ UNCHANGED <<listVars, mainVisible, pbVars, dialogs,
                   exitStatus, devVars, phase, ndev, handled, shown,
                   installHist, cancelledAt, retryHist, valueAtSuccess>>
    /\ UNCHANGED <<ctorVars, timerVars>>

\* VERIFYING -> FINALIZING: install_progress_cb(100), then
\* install_progress_message_cb(text)
BackendFinishing ==
    /\ Running
    /\ phase = "WRITING"
    /\ queue' = wrap(wrap(queue, Event("progress", 100, npub + 1)),
                     Event("progress_message", 0, npub + 2))
    /\ npub' = npub + 2
    /\ lastProgress' = 100
    /\ phase' = "FINALIZING"
    /\ UNCHANGED <<listVars, mainVisible, pbVars, dialogs,
                   exitStatus, devVars, ndev, handled, shown,
                   installHist, cancelledAt, retryHist, valueAtSuccess>>
    /\ UNCHANGED <<ctorVars, timerVars>>

\* FINALIZING -> SUCCEEDED: success_cb()
BackendSuccess ==
    /\ Running
    /\ phase = "FINALIZING"
    /\ Publish("success", 0)
    /\ phase' = "SUCCEEDED"
    /\ UNCHANGED <<listVars, mainVisible, pbVars, dialogs,
                   exitStatus, devVars, lastProgress, ndev, handled, shown, installHist, cancelledAt, retryHist, valueAtSuccess>>
    /\ UNCHANGED <<ctorVars, timerVars>>

\* a permanent fault: failure_cb(message)
BackendFailure ==
    /\ Running
    /\ JobActive
    /\ Publish("failure", 0)
    /\ phase' = "FAILED"
    /\ UNCHANGED <<listVars, mainVisible, pbVars, dialogs,
                   exitStatus, devVars, lastProgress, ndev, handled, shown, installHist, cancelledAt, retryHist, valueAtSuccess>>
    /\ UNCHANGED <<ctorVars, timerVars>>

\* a transient fault: the pipeline asks retry_cb(message) and goes on with
\* the answer it gets back: a true value resumes the job, anything else is
\* a "no" and fails it (failure_cb)
BackendRetry ==
    /\ Running
    /\ JobActive
    /\ retryReturned = "unset"
    /\ LET q1 == wrap(queue, Event("retry", 0, npub + 1))
           answer == wrapReturn
       IN  /\ retryReturned' = answer
           /\ IF answer = "True"
              THEN /\ queue' = q1
                   /\ npub' = npub + 1
                   /\ phase' = phase
              ELSE /\ queue' = wrap(q1, Event("failure", 0, npub + 2))
                   /\ npub' = npub + 2
                   /\ phase' = "FAILED"
    /\ UNCHANGED <<listVars, mainVisible, pbVars, dialogs,
                   exitStatus, devVars, lastProgress, ndev, handled, shown, installHist, cancelledAt, retryAnswer,
                   valueAtSuccess>>
    /\ UNCHANGED <<ctorVars, timerVars>>

\* backend.cancel_install() followed by sys.exit(0): KdeFrontend.quit.
\* cancel_install fails an active job with a cancellation failure(message).
quit ==
    /\ IF JobActive
       THEN /\ Publish("failure", 0)
            /\ phase' = "FAILED"
            /\ cancelledAt' = Len(handled)
       ELSE UNCHANGED <<queue, npub, phase, cancelledAt>>
    /\ exitStatus' = "0"

\* ------------------------------------------------ queue processor (timer)
\* KdeFrontend.progress (the wrapped function)
progress(complete) ==
    /\ IF ~pbHidden
       THEN LET c == IF complete > 100 THEN 100 ELSE complete
            IN  /\ pbValue' = c
                /\ shown' = Append(shown, c)
                /\ pbLabel' = IF c = 100 THEN Finishing ELSE pbLabel
       ELSE UNCHANGED <<pbValue, shown, pbLabel>>
    /\ UNCHANGED <<pbHidden, dialogs, valueAtSuccess>>

\* KdeFrontend.progress_message
progress_message(message) ==
    /\ pbLabel' = message
    /\ UNCHANGED <<pbHidden, pbValue, shown, dialogs, valueAtSuccess>>

\* KdeFrontend.__fail up to its message box; by is the slot that runs it
fail(ds, by) ==
    /\ pbHidden' = TRUE
    /\ dialogs' = Append(ds, Frame("critical", by, EmptyId, EmptyId))

\* KdeFrontend.failure
failure ==
    /\ fail(dialogs, "timer")
    /\ UNCHANGED <<pbValue, pbLabel, shown, valueAtSuccess>>

\* KdeFrontend.success up to its message box
success ==
    /\ pbHidden' = TRUE
    /\ valueAtSuccess' = pbValue
    /\ dialogs' = Append(dialogs, Frame("information", "timer", EmptyId, EmptyId))
    /\ UNCHANGED <<pbValue, pbLabel, shown>>

\* KdeFrontend.retry up to its message box
retry ==
    /\ dialogs' = Append(dialogs, Frame("retry", "timer", EmptyId, EmptyId))
    /\ UNCHANGED <<pbVars, shown, valueAtSuccess>>

\* test_func, the 500 ms queue processor: one queued closure per tick
Tick ==
    /\ Running
    /\ queueProcActive
    /\ ~InTimerSlot
    /\ queue # <<>>
    /\ LET func == Head(queue)
       IN  /\ queue' = Tail(queue)
           /\ handled' = Append(handled, func)
           /\ CASE func.kind = "progress" -> progress(func.arg)
                [] func.kind = "progress_message" -> progress_message("message")
                [] func.kind = "failure" -> failure
                [] func.kind = "success" -> success
                [] func.kind = "retry" -> retry
    /\ UNCHANGED <<listVars, mainVisible, exitStatus, devVars,
                   jobVars, npub, ndev, installHist, cancelledAt,
                   retryHist>>
    /\ queueProcActive' = timeout_callback(queueProcActive, test_func_return)
    /\ UNCHANGED <<ctorVars, updateLoopActive>>

\* the user answers the retry box; test_func drops the handler's result
AnswerRetry(yes) ==
    /\ Running /\ TopIs("retry")
    /\ retryAnswer' = IF yes THEN "Yes" ELSE "No"
    /\ dialogs' = Pop
    /\ UNCHANGED <<queue, listVars, mainVisible, pbVars,
                   exitStatus, devVars, jobVars, npub, ndev, handled, shown, installHist, cancelledAt, retryReturned,
                   valueAtSuccess>>
    /\ UNCHANGED <<ctorVars, timerVars>>

\* the user closes the error box of __fail: sys.exit(1)
CloseCritical ==
    /\ Running /\ TopIs("critical")
    /\ exitStatus' = "1"
    /\ UNCHANGED <<queue, listVars, mainVisible, pbVars, dialogs,
                   devVars, jobVars, npub, ndev, handled, shown,
                   installHist, cancelledAt, retryHist, valueAtSuccess>>
    /\ UNCHANGED <<ctorVars, timerVars>>

\* the user closes the box of success: backend.shutdown(); sys.exit(0)
CloseInformation ==
    /\ Running /\ TopIs("information")
    /\ exitStatus' = "0"
    /\ UNCHANGED <<queue, listVars, mainVisible, pbVars, dialogs,
                   devVars, jobVars, npub, ndev, handled, shown,
                   installHist, cancelledAt, retryHist, valueAtSuccess>>
    /\ UNCHANGED <<ctorVars, timerVars>>

\* ------------------------------------------------------- user: install
eitherSelected(source, target) == source # EmptyId \/ target # EmptyId

\* the test `if (source and target)` of KdeFrontend.install
bothSelected(source, target) == source # EmptyId /\ target # EmptyId

\* KdeFrontend.install up to the confirmation box (or to notify's box)
StartClicked ==
    /\ Interactive /\ mainVisible /\ startEnabled
    /\ LET source == get_source
           target == get_target
       IN  IF bothSelected(source, target)
           THEN /\ dialogs' = Append(dialogs,
                                     Frame("confirm", "user", source, target))
           ELSE /\ dialogs' = Append(dialogs,
                                     Frame("notify", "user", EmptyId, EmptyId))
    /\ UNCHANGED <<queue, listVars, mainVisible, pbVars,
                   exitStatus, devVars, jobVars, npub, ndev, handled, shown, installCalls, installArgs, installResult,
                   confirmAnswer, cancelledAt, retryHist, valueAtSuccess>>
    /\ UNCHANGED <<ctorVars, timerVars>>

\* the user closes the box of notify
CloseNotify ==
    /\ Running /\ TopIs("notify")
    /\ dialogs' = Pop
    /\ UNCHANGED <<queue, listVars, mainVisible, pbVars,
                   exitStatus, devVars, jobVars, npub, ndev, handled, shown, installHist, cancelledAt, retryHist, valueAtSuccess>>
    /\ UNCHANGED <<ctorVars, timerVars>>

mainWindow_keep(visible) == visible

\* self.__mainWindow.hide() in KdeFrontend.install
mainWindow_hide(visible) == FALSE

install_except_pass(ds) ==
    /\ pbHidden' = FALSE
    /\ dialogs' = ds

\* the `except:` clause around backend.install; ds is the dialog stack
install_except(ds) == fail(ds, "user")

\* backend.install raises: JobError.AlreadyRunning, JobError.InvalidSelection
\* or, for a target flagged system-internal, JobError.SystemInternalBlocked
install_raises(source, target, blocked) ==
    \/ phase # "IDLE"
    \/ source \notin sources
    \/ target \notin targets
    \/ blocked

\* KdeFrontend.install from the answer to the confirmation box on
AnswerConfirm(yes, blocked) ==
    /\ Running /\ TopIs("confirm")
    /\ IF ~yes
       THEN /\ confirmAnswer' = "No"
            /\ dialogs' = Pop
            /\ UNCHANGED <<mainVisible, pbVars, phase, installCalls,
                           installArgs, installResult, updateLoopActive>>
       ELSE /\ confirmAnswer' = "Yes"
            /\ mainVisible' = mainWindow_hide(mainVisible)
            /\ updateLoopActive' = delete_timeout(updateLoopActive)
            /\ pbLabel' = StartingUp
            /\ installCalls' = installCalls + 1
            /\ installArgs' = [source |-> Top.source, target |-> Top.target]
            /\ IF install_raises(Top.source, Top.target, blocked)
               THEN /\ installResult' = "rejected"
                    /\ install_except(Pop)
                    /\ UNCHANGED phase
               ELSE /\ installResult' = "accepted"
                    /\ phase' = "WRITING"
                    /\ pbHidden' = FALSE
                    /\ dialogs' = Pop
            /\ UNCHANGED pbValue
    /\ UNCHANGED <<queue, listVars, exitStatus, devVars,
                   lastProgress, npub, ndev, handled, shown,
                   cancelledAt, retryHist, valueAtSuccess>>
    /\ UNCHANGED <<ctorVars, queueProcActive>>

\* the quit button of the main window: KdeFrontend.quit
QuitClicked ==
    /\ Interactive /\ mainVisible
    /\ quit
    /\ UNCHANGED <<listVars, mainVisible, pbVars, dialogs, devVars,
                   lastProgress, ndev, handled, shown, installHist,
                   retryHist, valueAtSuccess>>
    /\ UNCHANGED <<ctorVars, timerVars>>

\* the cancel button of the progress dialog: KdeFrontend.warning_dialog up to
\* its message box
CancelClicked ==
    /\ Interactive /\ ~pbHidden
    /\ pbHidden' = TRUE
    /\ dialogs' = Append(dialogs, Frame("warning", "user", EmptyId, EmptyId))
    /\ UNCHANGED <<queue, listVars, mainVisible, pbValue, pbLabel,
                   exitStatus, devVars, jobVars, npub, ndev, handled, shown, installHist, cancelledAt, retryHist, valueAtSuccess>>
    /\ UNCHANGED <<ctorVars, timerVars>>

\* KdeFrontend.warning_dialog from the answer on
AnswerWarning(yes) ==
    /\ Running /\ TopIs("warning")
    /\ IF yes
       THEN /\ quit
            /\ UNCHANGED <<pbHidden, dialogs>>
       ELSE /\ pbHidden' = FALSE
            /\ dialogs' = Pop
            /\ UNCHANGED <<queue, npub, phase, cancelledAt, exitStatus>>
    /\ UNCHANGED <<listVars, mainVisible, pbValue, pbLabel, devVars,
                   lastProgress, ndev, handled, shown, installHist,
                   retryHist, valueAtSuccess>>
    /\ UNCHANGED <<ctorVars, timerVars>>

\* ------------------------------------------------------------------ Next
Items(ids) == [id : ids, n : 1..MaxDeviceEvents]

Next ==
    \/ \E s \in SourceIds : SourceAdded(s)
    \/ \E s \in SourceIds : SourceRemoved(s)
    \/ \E t \in TargetIds, st \in Statuses : TargetAdded(t, st)
    \/ \E t \in TargetIds : TargetRemoved(t)
    \/ \E t \in TargetIds, st \in Statuses : TargetChanged(t, st)
    \/ \E item \in Items(SourceIds) : SelectSource(item)
    \/ \E item \in Items(TargetIds) : SelectTarget(item)
    \/ StartClicked
    \/ CloseNotify
    \/ \E yes \in BOOLEAN, blocked \in BOOLEAN : AnswerConfirm(yes, blocked)
    \/ QuitClicked
    \/ CancelClicked
    \/ \E yes \in BOOLEAN : AnswerWarning(yes)
    \/ \E p \in ProgressValues : BackendProgress(p)
    \/ BackendFinishing
    \/ BackendSuccess
    \/ BackendFailure
    \/ BackendRetry
    \/ Tick
    \/ \E yes \in BOOLEAN : AnswerRetry(yes)
    \/ CloseCritical
    \/ CloseInformation
    \/ CtorAddImage
    \/ CtorStart
    \/ \E t \in TargetIds, st \in Statuses : UpdateFreeTick(t, st)
    \/ AddSourceClicked
    \/ \E filename \in {EmptyId} \cup SourceIds, ok \in BOOLEAN :
          ChooseFile(filename, ok)

Spec == Init /\ [][Next]_vars

\* started with the path of an image; detect_devices reports the targets
InitFair ==
    \E img \in SourceIds, found \in Detections : InitWith(img, {}, found)

\* an install from that start: the targets are polled and selected, the
\* job runs and its events are handled; nothing is attached or detached
NextFair ==
    \/ CtorAddImage
    \/ CtorStart
    \/ \E t \in TargetIds, st \in Statuses : UpdateFreeTick(t, st)
    \/ \E item \in Items(TargetIds) : SelectTarget(item)
    \/ StartClicked
    \/ \E yes \in BOOLEAN, blocked \in BOOLEAN : AnswerConfirm(yes, blocked)
    \/ QuitClicked
    \/ CancelClicked
    \/ \E yes \in BOOLEAN : AnswerWarning(yes)
    \/ \E p \in ProgressValues : BackendProgress(p)
    \/ BackendFinishing
    \/ BackendSuccess
    \/ BackendFailure
    \/ BackendRetry
    \/ Tick
    \/ \E yes \in BOOLEAN : AnswerRetry(yes)
    \/ CloseCritical
    \/ CloseInformation

\* the queue processor is a QTimer of 500 ms that nothing stops: whenever
\* its slot can run, it eventually does
SpecFair == InitFair /\ [][NextFair]_vars /\ WF_vars(Tick)

\* the main window up to the confirmation of an install, from any start
NextStartup ==
    \/ CtorAddImage
    \/ CtorStart
    \/ \E s \in SourceIds : SourceAdded(s)
    \/ \E s \in SourceIds : SourceRemoved(s)
    \/ \E t \in TargetIds, st \in Statuses : TargetAdded(t, st)
    \/ \E t \in TargetIds : TargetRemoved(t)
    \/ \E t \in TargetIds, st \in Statuses : TargetChanged(t, st)
    \/ \E t \in TargetIds, st \in Statuses : UpdateFreeTick(t, st)
    \/ \E item \in Items(SourceIds) : SelectSource(item)
    \/ \E item \in Items(TargetIds) : SelectTarget(item)
    \/ AddSourceClicked
    \/ \E filename \in {EmptyId} \cup SourceIds, ok \in BOOLEAN :
          ChooseFile(filename, ok)
    \/ StartClicked
    \/ CloseNotify
    \/ \E blocked \in BOOLEAN : AnswerConfirm(FALSE, blocked)
    \/ QuitClicked
    \/ Tick
    \/ CloseCritical

SpecStartup == InitStartup /\ [][NextStartup]_vars

\* ================================================================ claims
HandledIdx == 1..Len(handled)
Terminals == {i \in HandledIdx : handled[i].kind \in {"failure", "success"}}
Failures == {i \in HandledIdx : handled[i].kind = "failure"}
Exited == exitStatus # "running"

\* C1: the value the backend gets back from retry(message) equals the
\* user's decision in the retry dialog (true iff Yes), and a Yes does not
\* fail the job.
C1_RetryRoundTrip ==
    retryAnswer # "unset" =>
        /\ (retryReturned = "True") <=> (retryAnswer = "Yes")
        /\ retryAnswer = "Yes" => phase # "FAILED"

\* C2: the queued events are executed in the order they were published:
\* the i-th event executed is the i-th event published, so none is executed
\* twice or before an earlier one, and what is still queued is newer.
C2_PublishOrder ==
    /\ \A i \in HandledIdx : handled[i].n = i
    /\ \A k \in 1..Len(queue) : queue[k].n = Len(handled) + k

C2_Witness ==
    /\ Len(handled) >= 3
    /\ handled[1].kind = "progress"
    /\ handled[3].kind = "progress_message"
    /\ queue # <<>>

\* C3: per job exactly one terminal event (success or failure) is handled,
\* and nothing is handled after it: a terminal event is the last event
\* handled, there is at most one, and a job that ended has had one.
C3_OneTerminalEvent ==
    /\ \A i \in Terminals : i = Len(handled)
    /\ Cardinality(Terminals) <= 1
    /\ (Exited /\ installResult = "accepted") => Cardinality(Terminals) = 1

\* C4: cancelling a writing job (quit confirmed in the warning) yields
\* exactly one failure event handled and no progress event handled after it.
C4_CancelYieldsOneFailure ==
    (cancelledAt >= 0 /\ Exited) =>
        /\ Cardinality(Failures) = 1
        /\ \A i \in HandledIdx :
              i > cancelledAt => handled[i].kind # "progress"

\* C5: the values applied to the progress bar are non-decreasing and within
\* 0..100, and the bar shows 100 when success is handled.
C5_ProgressShown ==
    /\ \A i \in 1..Len(shown) : shown[i] >= 0 /\ shown[i] <= 100
    /\ \A i \in 1..Len(shown) : \A j \in i..Len(shown) : shown[i] <= shown[j]
    /\ (\E i \in HandledIdx : handled[i].kind = "success")
           => valueAtSuccess = 100

\* C6: backend.install is invoked at most once; once it has been invoked
\* the main window (and its start button) is hidden.
C6_SingleInstall ==
    /\ installCalls <= 1
    /\ installCalls >= 1 => ~mainVisible

C6_Witness ==
    /\ installCalls = 1
    /\ installResult = "accepted"
    /\ startEnabled
    /\ JobActive
    /\ dialogs = <<>>

\* C7: neither list holds an entry for an id that was removed (and not added
\* again), nor two entries with the same id.
C7_NoRemovedNoDuplicate ==
    /\ \A i \in srcItems : i.id \in sources
    /\ \A i \in dstItems : i.id \in targets
    /\ \A i, j \in srcItems : i.id = j.id => i = j
    /\ \A i, j \in dstItems : i.id = j.id => i = j

\* C8: every backend event is marshalled into the queue: the step in which
\* the backend publishes an event (a device event or a queued one) leaves
\* the presentation state alone; only the consumer changes it.
C8_AllMarshalled ==
    [][(ndev' # ndev \/ npub' # npub) =>
          UNCHANGED <<srcItems, srcCur, dstItems, dstCur, startEnabled,
                      destStatus, pbHidden, pbValue, pbLabel>>]_vars

\* C9: a rejected backend.install is surfaced as a failure: the progress
\* dialog is hidden and the error box is up, or the process has ended with
\* status 1; a confirmed install is either accepted or rejected.
C9_RejectionSurfaced ==
    /\ installCalls >= 1 => installResult \in {"accepted", "rejected"}
    /\ installResult = "accepted" => phase # "IDLE"
    /\ installResult = "rejected" =>
          /\ pbHidden
          /\ phase = "IDLE"
          /\ \/ Running /\ TopIs("critical")
             \/ exitStatus = "1"

C9_Witness ==
    /\ installResult = "rejected"
    /\ exitStatus = "1"
    /\ installCalls = 1

\* C10: backend.install gets a non-empty source id and target id, the ones
\* selected when the start button was clicked, and only after a Yes; with a
\* selection missing the click only shows the notification; a No changes
\* nothing.
C10_InstallStep ==
    installCalls' # installCalls =>
        /\ TopIs("confirm")
        /\ installArgs' = [source |-> Top.source, target |-> Top.target]

C10_ClickStep ==
    (mainVisible /\ dialogs = <<>> /\ dialogs' # <<>>
       /\ dialogs'[1].kind \in {"confirm", "notify"}) =>
        /\ UNCHANGED <<installCalls, phase, queue, devVars, listVars,
                       mainVisible>>
        /\ IF get_source # EmptyId /\ get_target # EmptyId
           THEN dialogs' = <<Frame("confirm", "user", get_source, get_target)>>
           ELSE dialogs'[1].kind = "notify"

C10_NoStep ==
    (TopIs("confirm") /\ dialogs' = Pop /\ confirmAnswer' = "No") =>
        /\ mainVisible' = mainVisible
        /\ UNCHANGED <<installCalls, phase, queue, pbVars, listVars>>

C10_InstallArgs ==
    /\ [](installCalls >= 1 =>
            (/\ installArgs.source # EmptyId
             /\ installArgs.target # EmptyId
             /\ confirmAnswer = "Yes"))
    /\ [][C10_InstallStep /\ C10_ClickStep /\ C10_NoStep]_vars

C10_Witness ==
    /\ installCalls = 1
    /\ confirmAnswer = "Yes"
    /\ installArgs.source \in SourceIds
    /\ installArgs.target \in TargetIds
    /\ installResult = "accepted"
    /\ handled = <<>>

\* a path shown by an item of the source list
listed(filename) == \E i \in srcItems : device(i.id) = filename

\* the file dialog is answered with a path the source list already shows:
\* an item showing it is current afterwards, the list and the registry are
\* as before and add_image is not called
C11_DialogStep ==
    \A filename \in SourceIds, ok \in BOOLEAN :
        (ChooseFile(filename, ok) /\ listed(filename)) =>
            /\ srcCur' \in srcItems
            /\ device(srcCur'.id) = filename
            /\ currentSource' = srcCur'.id
            /\ UNCHANGED <<srcItems, sources, queue, npub, ndev>>

\* __init__ passes a path the source list already shows to add_image
C11_StartupReAdd == CtorAddImage /\ listed(Head(ctor).path)

\* C11 (as claimed): re-adding a path that is already in the source list
\* re-selects the existing entry, creates no second entry and issues no
\* add_image call, through the file dialog as well as for the startup
\* image and the downloads-directory scan.
C11_ReAddIssuesNoCall ==
    [][C11_DialogStep /\ ~C11_StartupReAdd]_vars

\* C11 (amended): re-adding through the file dialog a path that is already
\* in the source list re-selects the existing entry, creates no second
\* entry and issues no add_image call; __init__ does pass a listed path to
\* add_image (an image that lies in the downloads directory), and that
\* call leaves the list and the selection as they are.
C11_AddImageIdempotent ==
    [][/\ C11_DialogStep
       /\ C11_StartupReAdd =>
             UNCHANGED <<srcItems, srcCur, sources, currentSource>>]_vars

C11_Witness ==
    /\ Running /\ dialogs = <<>> /\ srcShown
    /\ recently_added = NoSource
    /\ ndev = 0
    /\ srcItems = {[id |-> 1, n |-> 1], [id |-> 2, n |-> 1]}
    /\ srcCur = [id |-> 2, n |-> 1]
    /\ currentSource = 2

\* C12: no event is dropped under backpressure (every event published is
\* either handled or still queued), and a queue that has grown beyond the
\* sanity threshold is signalled as a fatal overflow: the process does not
\* go on running with it.
C12_NoDropOverflowFatal ==
    /\ Running => npub = Len(handled) + Len(queue)
    /\ Len(queue) > SanityThreshold => exitStatus = "1"

\* C13: while the current source is not a raw image (IMG), the start button
\* is enabled only if a target is selected and the status of the selected
\* target is CAN_USE, whatever target events and selection changes came
\* before.
C13_StartOnlyIfSelectedUsable ==
    (/\ Running
     /\ currentSource # NoSource
     /\ SourceType(currentSource) # SOURCE_IMG
     /\ startEnabled) =>
        /\ dstCur # NoItem
        /\ tstatus[dstCur.id] = CAN_USE

\* C14: delete_timeout removes the timer it is given: the step in which
\* install() is confirmed leaves update_loop stopped, and from then on the
\* 2000 ms update_free tick does not fire again.
C14_UpdateLoopRemoved ==
    [][/\ installCalls' # installCalls => ~updateLoopActive'
       /\ installCalls >= 1 =>
             ~(\E t \in TargetIds, st \in Statuses : UpdateFreeTick(t, st))]_vars

\* a tick of the queue processor runs exactly the closure at the head of
\* the queue and takes it off the queue
C15_TickStep ==
    handled' # handled =>
        /\ queue # <<>>
        /\ handled' = Append(handled, Head(queue))
        /\ queue' = Tail(queue)

\* any other step leaves the queued closures where they are (new ones go
\* behind them)
C15_OtherStep ==
    handled' = handled =>
        /\ Len(queue') >= Len(queue)
        /\ SubSeq(queue', 1, Len(queue)) = queue

\* the most events one job publishes: its progress events, progress(100)
\* and the progress message, then success, failure, or retry and failure
C15_MaxEvents == MaxProgress + 4

C16_SelectedId == IF srcCur = NoItem THEN NoSource ELSE srcCur.id

\* a step that changes the selected source item recomputes the start button
\* and the destination status for the selected target, from that target's
\* status and the type of the new current source
C16_Recomputed ==
    srcCur' # srcCur =>
        IF dstCur' = NoItem
        THEN UNCHANGED <<startEnabled, destStatus>>
        ELSE /\ startEnabled' =
                   (tstatus'[dstCur'.id] = CAN_USE
                    \/ (startEnabled /\ SourceType(currentSource') = SOURCE_IMG))
             /\ destStatus' =
                   (IF tstatus'[dstCur'.id] = CANNOT_USE THEN TooSmall ELSE "")

\* C16: the backend's current source is the id of the selected source item
\* (None when no item is selected), after every change of the selection;
\* such a change also recomputes the start button and the destination
\* status for the selected target.
C16_CurrentSourceFollows ==
    /\ [](currentSource = C16_SelectedId)
    /\ [][C16_Recomputed]_vars

C16_Witness ==
    /\ Running
    /\ srcCur = [id |-> 1, n |-> 1]
    /\ [id |-> 2, n |-> 1] \in srcItems
    /\ currentSource = 1
    /\ dstCur # NoItem
    /\ tstatus[dstCur.id] = CANNOT_USE
    /\ ~startEnabled
    /\ destStatus = TooSmall

\* target_changed(t) is delivered: update_target(t) is what runs
C17_Changed(t) == t \in targets /\ t \in targets' /\ tstatus'[t] # tstatus[t]

\* C17: update_target(udi) with a current source set leaves the start
\* button enabled iff the status of target udi is CAN_USE, or the button
\* was enabled before and the current source is a raw image (IMG); with no
\* current source set it leaves the start button and the destination
\* status message as they were.
C17_UpdateTarget ==
    [][\A t \in TargetIds :
          C17_Changed(t) =>
              IF currentSource = NoSource
              THEN UNCHANGED <<startEnabled, destStatus>>
              ELSE startEnabled' =
                     (tstatus'[t] = CAN_USE
                      \/ (startEnabled
                          /\ SourceType(currentSource) = SOURCE_IMG))]_vars

C17_Witness ==
    /\ Running
    /\ currentSource # NoSource
    /\ SourceType(currentSource) = SOURCE_IMG
    /\ dstCur # NoItem
    /\ tstatus[dstCur.id] = CANNOT_USE
    /\ startEnabled
    /\ destStatus = TooSmall

\* add_source ran for a new source: what it finds and what it leaves.  The
\* pending path is __recently_added_image as add_source reads it: the one
\* the answer to the file dialog has just set, when the step is that
\* answer, else the one left from before.
C18_AddStep ==
    srcItems' # srcItems =>
        LET new == CHOOSE i \in srcItems' \ srcItems : TRUE
            pending == IF TopIs("file") /\ dialogs' = Pop
                       THEN device(new.id) ELSE recently_added
            matched == pending # NoSource /\ device(new.id) = pending
        IN  /\ Cardinality(srcItems' \ srcItems) = 1
            /\ (srcCur' = new) <=> (srcCur = NoItem \/ matched)
            /\ srcCur' # new => srcCur' = srcCur
            /\ recently_added' = IF matched THEN NoSource ELSE pending

\* C18: a source becomes the current item when it is added iff no source
\* was current before or it is the image last requested through the file
\* dialog (its device is the pending path); a matched pending path is
\* cleared, an unmatched one is kept, and a source that does not become
\* current leaves the selection where it was.
C18_AutoSelect == [][C18_AddStep]_vars

C18_Witness ==
    /\ Running /\ dialogs = <<>> /\ srcShown
    /\ srcItems = {[id |-> 1, n |-> 1], [id |-> 2, n |-> 1]}
    /\ srcCur = [id |-> 2, n |-> 1]
    /\ sources = {1, 2}
    /\ recently_added = NoSource
    /\ ndev = 2
====
